---- MODULE Spec2Model ----
(***************************************************************************)
(* Workforce shift scheduling (src/app.py, src/main.py): the constraint    *)
(* system built by create_scheduling_model, the CP-SAT call, the schedule  *)
(* extraction, the worker summary and the branch of main() on the status.  *)
(***************************************************************************)
EXTENDS Integers, Sequences, FiniteSets, TLC

\* ------------------------------------------------------------------------
\* Bounds of the model
\* ------------------------------------------------------------------------
MaxDays == 8
MaxWorkers == 2
MaxReq == 2
\* num_days * num_workers^2, the growth of the solver's search, is kept at or
\* below MaxLoad
MaxLoad == 32

\* ------------------------------------------------------------------------
\* Program constants
\* ------------------------------------------------------------------------
\* for start_day in range(num_days - 6)
WindowStartSlack == 6
\* for d in range(start_day, start_day + 7)
WindowLen == 7
\* sum(working_days_in_window) <= 5
MaxWorkDays == 5

shifts == <<"manha", "central", "tarde", "noite">>
weekday_shifts == <<"manha", "central", "tarde", "noite">>
weekend_shifts == <<"manha", "tarde", "noite">>

ToSet(seq) == {seq[i] : i \in 1..Len(seq)}

\* ------------------------------------------------------------------------
\* The four places that derive a day's type
\* ------------------------------------------------------------------------
\* app.py:55   if d % 7 == 5 or d % 7 == 6 (choice of the shift list)
IsWeekendShiftSet(d) == d % 7 = 5 \/ d % 7 = 6

\* app.py:75   if d % 7 == 5 or d % 7 == 6 (choice of the requirement dict)
IsWeekendCoverage(d) == d % 7 = 5 \/ d % 7 = 6

IsWeekendFlagOnlySunday(d) == d % 7 > 5
\* app.py:120  'Is_Weekend': d % 7 >= 5
IsWeekendFlag(d) == d % 7 >= 5

\* app.py:140  if d % 7 >= 5
IsWeekendSummary(d) == d % 7 >= 5

\* app.py:53-58  shifts_by_day_type[d]
shifts_by_day_type(d) == IF IsWeekendShiftSet(d) THEN weekend_shifts ELSE weekday_shifts

\* ------------------------------------------------------------------------
\* Configurations: the arguments of create_scheduling_model
\* ------------------------------------------------------------------------
Restrict(f, S) == [k \in S |-> f[k]]

\* A requirement dict is a function from shift names; a dict with a missing
\* entry has a smaller domain.
WeekdayDict(a, b, m) ==
    LET full == [s \in ToSet(weekday_shifts) |->
                    IF s = "manha" THEN a ELSE IF s = "central" THEN b ELSE 0]
    IN  IF m = "weekday_central" THEN Restrict(full, ToSet(weekday_shifts) \ {"central"})
        ELSE full

WeekendDict(c, m) ==
    LET full == [s \in ToSet(weekend_shifts) |-> IF s = "tarde" THEN c ELSE 0]
    IN  IF m = "weekend_tarde" THEN Restrict(full, ToSet(weekend_shifts) \ {"tarde"})
        ELSE full

MissingChoices == {"none", "weekday_central", "weekend_tarde"}

Configs ==
    { [num_days |-> D, num_workers |-> W,
       required_staff_weekday |-> WeekdayDict(a, b, m),
       required_staff_weekend |-> WeekendDict(c, m)] :
        <<D, W, a, b, c, m>> \in
          { q \in (0..MaxDays) \X (0..MaxWorkers) \X (-1..MaxReq) \X (-1..MaxReq)
                  \X (-1..MaxReq) \X MissingChoices : q[1] * q[2] * q[2] <= MaxLoad } }

VARIABLES
    cfg,        \* the arguments of create_scheduling_model
    pc,         \* position of the pipeline
    x,          \* keys (w, d, s) of the assignment variables created
    works,      \* keys (w, start_day, d) of the works_on_day variables created
    cons,       \* the constraints added to the model, in order
    queried,    \* keys (w, d, s) looked up in x so far
    pos,        \* solver: number of (day, worker) cells decided
    xtrue,      \* solver: assignment variables set to 1
    wtrue,      \* solver: works_on_day variables set to 1
    status,     \* status returned by solver.Solve
    schedule,   \* rows of create_schedule_dataframe
    summary,    \* rows of create_worker_summary
    reported    \* what main() shows at the end

vars == <<cfg, pc, x, works, cons, queried, pos, xtrue, wtrue, status,
          schedule, summary, reported>>

days(c) == 0..(c.num_days - 1)
workers(c) == 0..(c.num_workers - 1)

Init ==
    /\ cfg \in Configs
    /\ pc = "start"
    /\ x = {}
    /\ works = {}
    /\ cons = <<>>
    /\ queried = {}
    /\ pos = 0
    /\ xtrue = {}
    /\ wtrue = {}
    /\ status = "NONE"
    /\ schedule = <<>>
    /\ summary = <<>>
    /\ reported = "NONE"

\* ------------------------------------------------------------------------
\* create_scheduling_model: decision variables (app.py:60-65)
\* ------------------------------------------------------------------------
NewBoolVarsAllShifts(c) ==
    {<<w, d, s>> : w \in workers(c), d \in days(c), s \in ToSet(shifts)}
NewBoolVars(c) ==
    UNION { {<<w, d, s>> : s \in ToSet(shifts_by_day_type(d))} :
            <<w, d>> \in workers(c) \X days(c) }

\* x[(w, d, s)] for s in shifts_by_day_type[d]
XKeys(w, d) == {<<w, d, s>> : s \in ToSet(shifts_by_day_type(d))}

BuildVariables ==
    /\ pc = "start"
    /\ x' = NewBoolVars(cfg)
    /\ pc' = "vars"
    /\ UNCHANGED <<cfg, works, cons, queried, pos, xtrue, wtrue, status,
                   schedule, summary, reported>>

\* ------------------------------------------------------------------------
\* Constraints of the CP-SAT model
\* ------------------------------------------------------------------------
\* kind: "AtMostOne" (AddAtMostOne), "SumEq" (Add(sum == rhs)),
\* "BoolOr" (AddBoolOr), "SumLe" (Add(sum <= rhs)).  xs: assignment variables,
\* ws: works_on_day variables, enf/pol: the OnlyEnforceIf literal (enf empty
\* when the constraint is unconditional; pol FALSE for literal.Not()).
Con(kind, xs, ws, rhs, enf, pol) ==
    [kind |-> kind, xs |-> xs, ws |-> ws, rhs |-> rhs, enf |-> enf, pol |-> pol]

\* range(n)
Range(n) == 0..(n - 1)

RECURSIVE SortedSeq(_)
SortedSeq(S) ==
    IF S = {} THEN <<>>
    ELSE LET m == CHOOSE e \in S : \A o \in S : e <= o
         IN  <<m>> \o SortedSeq(S \ {m})

RECURSIVE Flatten(_)
Flatten(ss) == IF ss = <<>> THEN <<>> ELSE Head(ss) \o Flatten(Tail(ss))

\* the (d, s) pairs in the order of "for d in days: for s in shifts_by_day_type[d]"
DayShiftPairs(c) ==
    Flatten([i \in 1..Cardinality(days(c)) |->
               [j \in 1..Len(shifts_by_day_type(i - 1)) |->
                  <<i - 1, shifts_by_day_type(i - 1)[j]>>]])

\* the (w, d) pairs in the order of "for w in workers: for d in days"
WorkerDayPairs(c) ==
    Flatten([i \in 1..Cardinality(workers(c)) |->
               [j \in 1..Cardinality(days(c)) |-> <<i - 1, j - 1>>]])

\* Constraint 1 (app.py:67-70): AddAtMostOne per (w, d)
AtMostOneConsSkipLastDay(c) ==
    LET wd == WorkerDayPairs([c EXCEPT !.num_days = c.num_days - 1])
    IN  [i \in 1..Len(wd) |->
           Con("AtMostOne", XKeys(wd[i][1], wd[i][2]), {}, 1, {}, TRUE)]
AtMostOneCons(c) ==
    LET wd == WorkerDayPairs(c)
    IN  [i \in 1..Len(wd) |->
           Con("AtMostOne", XKeys(wd[i][1], wd[i][2]), {}, 1, {}, TRUE)]

AddAtMostOne ==
    /\ pc = "vars"
    /\ \E keys \in {UNION {XKeys(p[1], p[2]) : p \in workers(cfg) \X days(cfg)}} :
           /\ queried' = queried \cup keys
           /\ IF keys \subseteq x
              THEN /\ cons' = cons \o AtMostOneCons(cfg)
                   /\ pc' = "c1"
                   /\ UNCHANGED reported
              ELSE \* KeyError, caught by main() (app.py:330)
                   /\ pc' = "error"
                   /\ reported' = "EXCEPTION"
                   /\ UNCHANGED cons
    /\ UNCHANGED <<cfg, x, works, pos, xtrue, wtrue, status, schedule, summary>>

\* Constraint 2 (app.py:72-78): Add(sum(x[(w, d, s)] for w) == required[s])
RequirementDict(c, d) ==
    IF IsWeekendCoverage(d) THEN c.required_staff_weekend ELSE c.required_staff_weekday

RequiredStaffAlwaysWeekday(c, d, s) == c.required_staff_weekday[s]
RequiredStaff(c, d, s) == RequirementDict(c, d)[s]

CoverageKeys(c, d, s) == {<<w, d, s>> : w \in workers(c)}

CoverageConClamped(c, d, s) ==
    Con("SumEq", CoverageKeys(c, d, s), {},
        IF RequiredStaff(c, d, s) > c.num_workers THEN c.num_workers
        ELSE RequiredStaff(c, d, s), {}, TRUE)
CoverageCon(c, d, s) ==
    Con("SumEq", CoverageKeys(c, d, s), {}, RequiredStaff(c, d, s), {}, TRUE)

AddCoverage ==
    /\ pc = "c1"
    /\ \E ds \in {DayShiftPairs(cfg)} :
        \* bad: the (d, s) at which the statement raises KeyError
        \E bad \in {{i \in 1..Len(ds) :
                     \/ ~(CoverageKeys(cfg, ds[i][1], ds[i][2]) \subseteq x)
                     \/ ds[i][2] \notin DOMAIN RequirementDict(cfg, ds[i][1])}} :
        \E stop \in {IF bad = {} THEN Len(ds) + 1
                     ELSE CHOOSE i \in bad : \A o \in bad : i <= o} :
           /\ queried' = queried \cup
                UNION {CoverageKeys(cfg, ds[i][1], ds[i][2]) :
                         i \in {j \in 1..Len(ds) : j <= stop}}
           /\ cons' = cons \o [i \in 1..(stop - 1) |-> CoverageCon(cfg, ds[i][1], ds[i][2])]
           /\ IF bad = {}
              THEN pc' = "c2" /\ UNCHANGED reported
              ELSE pc' = "error" /\ reported' = "EXCEPTION"
    /\ UNCHANGED <<cfg, x, works, pos, xtrue, wtrue, status, schedule, summary>>

\* Constraint 3 (app.py:80-89): rolling windows
WindowStartsMondayOnly(c) == {t \in Range(c.num_days - WindowStartSlack) : t % 7 = 0}
WindowStartsOneShort(c) == Range(c.num_days - WindowStartSlack - 1)
WindowStarts(c) == Range(c.num_days - WindowStartSlack)

WindowDays(t) == t..(t + WindowLen - 1)

\* app.py:85-87  the two reified constraints of one works_on_day variable
WorksOnDayConsOneWay(w, t, d) ==
    << Con("BoolOr", XKeys(w, d), {}, 0, {<<w, t, d>>}, TRUE) >>
WorksOnDayCons(w, t, d) ==
    << Con("BoolOr", XKeys(w, d), {}, 0, {<<w, t, d>>}, TRUE),
       Con("SumEq", XKeys(w, d), {}, 0, {<<w, t, d>>}, FALSE) >>

\* app.py:83-89  one window of one worker
WindowCons(w, t) ==
    Flatten([i \in 1..WindowLen |-> WorksOnDayCons(w, t, t + i - 1)])
      \o << Con("SumLe", {}, {<<w, t, d>> : d \in WindowDays(t)}, MaxWorkDays, {}, TRUE) >>

WindowPairs(c) ==
    LET ts == SortedSeq(WindowStarts(c))
    IN  Flatten([i \in 1..Cardinality(workers(c)) |->
                   [j \in 1..Len(ts) |-> <<i - 1, ts[j]>>]])

AddWindows ==
    /\ pc = "c2"
    /\ \E wt \in {WindowPairs(cfg)} :
        \E keys \in {UNION {XKeys(wt[i][1], d) : <<i, d>> \in
                            {q \in (1..Len(wt)) \X days(cfg) : q[2] \in WindowDays(wt[q[1]][2])}}} :
           /\ queried' = queried \cup keys
           /\ IF keys \subseteq x
              THEN /\ works' = UNION {{<<wt[i][1], wt[i][2], d>> : d \in WindowDays(wt[i][2])} :
                                        i \in 1..Len(wt)}
                   /\ cons' = cons \o Flatten([i \in 1..Len(wt) |-> WindowCons(wt[i][1], wt[i][2])])
                   /\ pc' = "solving"
                   /\ UNCHANGED reported
              ELSE /\ pc' = "error"
                   /\ reported' = "EXCEPTION"
                   /\ UNCHANGED <<works, cons>>
    /\ UNCHANGED <<cfg, x, pos, xtrue, wtrue, status, schedule, summary>>

\* ------------------------------------------------------------------------
\* solver.Solve(model) (app.py:92-94): the CP-SAT engine as a search that
\* decides the variables of one (day, worker) cell at a time and returns a
\* status; OPTIMAL / FEASIBLE only with an assignment satisfying every
\* constraint, INFEASIBLE only when there is none.
\* ------------------------------------------------------------------------
NCells(c) == Cardinality(days(c)) * Cardinality(workers(c))
CellIndex(c, w, d) == d * c.num_workers + w
CellDay(c, i) == i \div c.num_workers
CellWorker(c, i) == i % c.num_workers

Enforced(con, wt) == \A k \in con.enf : (k \in wt) = con.pol

Holds(con, xt, wt) ==
    Enforced(con, wt) =>
        CASE con.kind = "AtMostOne" -> Cardinality(con.xs \cap xt) <= 1
          [] con.kind = "SumEq"     -> Cardinality(con.xs \cap xt) = con.rhs
          [] con.kind = "BoolOr"    -> con.xs \cap xt # {}
          [] con.kind = "SumLe"     -> Cardinality(con.ws \cap wt) <= con.rhs

\* the cells of the variables of a constraint
ConCells(con) ==
    {CellIndex(cfg, k[1], k[2]) : k \in con.xs}
      \cup {CellIndex(cfg, k[1], k[3]) : k \in con.ws \cup con.enf}

CellX(w, d) == {k \in x : k[1] = w /\ k[2] = d}
CellW(w, d) == {k \in works : k[1] = w /\ k[3] = d}

\* the constraints that the values of cell p complete: cell p holds one of
\* their variables and no later cell does
Completed(p) ==
    {i \in DOMAIN cons :
        \E cc \in {ConCells(cons[i])} : p \in cc /\ \A q \in cc : q <= p}

\* those over assignment variables alone, and the others
OverX(done) == {i \in done : cons[i].ws = {} /\ cons[i].enf = {}}
OverW(done) == {i \in done : ~(cons[i].ws = {} /\ cons[i].enf = {})}

AllHold(xt, wt) == \A i \in DOMAIN cons : Holds(cons[i], xt, wt)

RECURSIVE Sat(_, _, _)
Sat(p, xt, wt) ==
    IF p >= NCells(cfg) THEN AllHold(xt, wt)
    ELSE \E done \in {Completed(p)} :
         \E dx \in {OverX(done)} : \E dw \in {OverW(done)} :
         \E cx \in {CellX(CellWorker(cfg, p), CellDay(cfg, p))} :
         \E cw \in {CellW(CellWorker(cfg, p), CellDay(cfg, p))} :
         \E xs \in SUBSET cx :
            /\ \A i \in dx : Holds(cons[i], xt \cup xs, {})
            /\ \E ws \in SUBSET cw :
                  /\ \A i \in dw : Holds(cons[i], xt \cup xs, wt \cup ws)
                  /\ Sat(p + 1, xt \cup xs, wt \cup ws)

\* a linear constraint that no values can meet: the sum of n booleans is in 0..n
Presolve ==
    \A i \in DOMAIN cons :
       (cons[i].kind = "SumEq" /\ cons[i].enf = {}) =>
          cons[i].rhs \in 0..Cardinality(cons[i].xs)

\* some assignment satisfies every constraint
Satisfiable == Presolve /\ Sat(0, {}, {})

SolveStep ==
    /\ pc = "solving"
    /\ pos < NCells(cfg)
    /\ \E done \in {Completed(pos)} :
       \E dx \in {OverX(done)} : \E dw \in {OverW(done)} :
       \E cx \in {CellX(CellWorker(cfg, pos), CellDay(cfg, pos))} :
       \E cw \in {CellW(CellWorker(cfg, pos), CellDay(cfg, pos))} :
       \E xs \in SUBSET cx :
          /\ \A i \in dx : Holds(cons[i], xtrue \cup xs, {})
          /\ \E ws \in SUBSET cw :
                /\ \A i \in dw : Holds(cons[i], xtrue \cup xs, wtrue \cup ws)
                /\ xtrue' = xtrue \cup xs
                /\ wtrue' = wtrue \cup ws
    /\ pos' = pos + 1
    /\ UNCHANGED <<cfg, pc, x, works, cons, queried, status, schedule, summary, reported>>

\* a satisfying assignment was found
SolveFound ==
    /\ pc = "solving"
    /\ pos = NCells(cfg)
    /\ AllHold(xtrue, wtrue)
    /\ status' \in {"OPTIMAL", "FEASIBLE"}
    /\ pc' = "solved"
    /\ UNCHANGED <<cfg, x, works, cons, queried, pos, xtrue, wtrue, schedule, summary, reported>>

\* the engine proved that no assignment satisfies the constraints
SolveInfeasible ==
    /\ pc = "solving"
    /\ pos = 0
    /\ ~Satisfiable
    /\ status' = "INFEASIBLE"
    /\ pc' = "solved"
    /\ UNCHANGED <<cfg, x, works, cons, queried, pos, xtrue, wtrue, schedule, summary, reported>>

\* the engine gave up (interrupted, out of budget): no assignment is returned
SolveUnknown ==
    /\ pc = "solving"
    /\ status' = "UNKNOWN"
    /\ pc' = "solved"
    /\ pos' = 0
    /\ xtrue' = {}
    /\ wtrue' = {}
    /\ UNCHANGED <<cfg, x, works, cons, queried, schedule, summary, reported>>

\* ------------------------------------------------------------------------
\* main() after create_scheduling_model returns (app.py:201-331)
\* ------------------------------------------------------------------------
SolutionFoundOrUnknown(st) == st \in {"OPTIMAL", "FEASIBLE", "UNKNOWN"}
\* app.py:201  if status == cp_model.OPTIMAL or status == cp_model.FEASIBLE
SolutionFound(st) == st = "OPTIMAL" \/ st = "FEASIBLE"

\* solver.Value(x[(w, d, s)]) == 1
Value(k) == k \in xtrue

RECURSIVE AssignedWorkers(_, _, _)
\* app.py:104-107  assigned_workers, workers w..num_workers-1 still to visit
AssignedWorkers(w, d, s) ==
    IF w >= cfg.num_workers THEN <<>>
    ELSE (IF Value(<<w, d, s>>) THEN <<w>> ELSE <<>>) \o AssignedWorkers(w + 1, d, s)

\* app.py:113-121  one row (Date and Day depend on the clock and are left out)
ScheduleRow(d, s) ==
    LET assigned_workers == AssignedWorkers(0, d, s)
    IN  [Day_Num |-> d, Shift |-> s, Workers |-> assigned_workers,
         Worker_Count |-> Len(assigned_workers), Is_Weekend |-> IsWeekendFlag(d)]

\* app.py:98-123  create_schedule_dataframe
Extract ==
    /\ pc = "solved"
    /\ SolutionFound(status)
    /\ \E ds \in {DayShiftPairs(cfg)} :
        \E keys \in {UNION {CoverageKeys(cfg, ds[i][1], ds[i][2]) : i \in 1..Len(ds)}} :
           /\ queried' = queried \cup keys
           /\ IF keys \subseteq x
              THEN /\ schedule' = [i \in 1..Len(ds) |-> ScheduleRow(ds[i][1], ds[i][2])]
                   /\ pc' = "extracted"
                   /\ UNCHANGED reported
              ELSE /\ pc' = "error"
                   /\ reported' = "EXCEPTION"
                   /\ UNCHANGED schedule
    /\ UNCHANGED <<cfg, x, works, cons, pos, xtrue, wtrue, status, summary>>

\* app.py:130-133  the counters of one worker before the loops
SummaryCounters ==
    [total_shifts |-> 0, weekday_shifts |-> 0, weekend_shifts |-> 0,
     shift_counts |-> [s \in ToSet(shifts) |-> 0]]

SummaryStepCountsEveryShift(acc, w, d, s) ==
    LET seen == [acc EXCEPT !.shift_counts[s] = @ + 1]
    IN  IF Value(<<w, d, s>>)
        THEN [seen EXCEPT !.total_shifts = @ + 1,
                          !.weekend_shifts = IF IsWeekendSummary(d) THEN @ + 1 ELSE @,
                          !.weekday_shifts = IF IsWeekendSummary(d) THEN @ ELSE @ + 1]
        ELSE seen
\* app.py:137-143  the body of the loops for one (d, s)
SummaryStep(acc, w, d, s) ==
    IF Value(<<w, d, s>>)
    THEN [acc EXCEPT !.total_shifts = @ + 1,
                     !.shift_counts[s] = @ + 1,
                     !.weekend_shifts = IF IsWeekendSummary(d) THEN @ + 1 ELSE @,
                     !.weekday_shifts = IF IsWeekendSummary(d) THEN @ ELSE @ + 1]
    ELSE acc

RECURSIVE SummaryLoop(_, _, _, _)
\* app.py:135-143  the loops from the i-th (d, s) pair on
SummaryLoop(acc, w, ds, i) ==
    IF i > Len(ds) THEN acc
    ELSE SummaryLoop(SummaryStep(acc, w, ds[i][1], ds[i][2]), w, ds, i + 1)

\* app.py:129-154  one row of create_worker_summary
\* (ds: the (d, s) pairs in the order of the two loops)
SummaryRow(w, ds) ==
    LET acc == SummaryLoop(SummaryCounters, w, ds, 1)
    IN  [Worker_ID |-> w,
         Total_Shifts |-> acc.total_shifts,
         Weekday_Shifts |-> acc.weekday_shifts,
         Weekend_Shifts |-> acc.weekend_shifts,
         Manha_Shifts |-> acc.shift_counts["manha"],
         Central_Shifts |-> acc.shift_counts["central"],
         Tarde_Shifts |-> acc.shift_counts["tarde"],
         Noite_Shifts |-> acc.shift_counts["noite"]]

\* app.py:125-156  create_worker_summary, then the display (app.py:208-325)
Summarise ==
    /\ pc = "extracted"
    /\ \E ds \in {DayShiftPairs(cfg)} :
        \E keys \in {UNION {XKeys(p[1], p[2]) : p \in workers(cfg) \X days(cfg)}} :
           /\ queried' = queried \cup keys
           /\ IF keys \subseteq x
              THEN /\ summary' = [i \in 1..Cardinality(workers(cfg)) |-> SummaryRow(i - 1, ds)]
                   /\ pc' = "displayed"
                   /\ reported' = status
              ELSE /\ pc' = "error"
                   /\ reported' = "EXCEPTION"
                   /\ UNCHANGED summary
    /\ UNCHANGED <<cfg, x, works, cons, pos, xtrue, wtrue, status, schedule>>

\* app.py:327-328  st.error(... Status: {solver.status_name(status)})
ReportNoSolution ==
    /\ pc = "solved"
    /\ ~SolutionFound(status)
    /\ reported' = status
    /\ pc' = "failed"
    /\ UNCHANGED <<cfg, x, works, cons, queried, pos, xtrue, wtrue, status, schedule, summary>>

\* an engine that returns a found assignment with one value wrong: the case
\* a re-check of the extracted Schedule would exist for
SolveFaulty ==
    /\ pc = "solving"
    /\ pos = NCells(cfg)
    /\ AllHold(xtrue, wtrue)
    /\ \E k \in x : xtrue' = IF k \in xtrue THEN xtrue \ {k} ELSE xtrue \cup {k}
    /\ status' = "OPTIMAL"
    /\ pc' = "solved"
    /\ UNCHANGED <<cfg, x, works, cons, queried, pos, wtrue, schedule, summary, reported>>

Next ==
    \/ BuildVariables
    \/ AddAtMostOne
    \/ AddCoverage
    \/ AddWindows
    \/ SolveStep
    \/ SolveFound
    \/ SolveInfeasible
    \/ SolveUnknown
    \/ Extract
    \/ Summarise
    \/ ReportNoSolution

Spec == Init /\ [][Next]_vars

NextUntrusted == Next \/ SolveFaulty

\* the same pipeline with an engine whose assignment is not trusted
SpecUntrusted == Init /\ [][NextUntrusted]_vars

\* ------------------------------------------------------------------------
\* Properties
\* ------------------------------------------------------------------------
\* a Schedule has been extracted
Produced == pc \in {"extracted", "displayed"}

\* worker w is in the worker list of a row
InRow(w, row) == \E j \in 1..Len(row.Workers) : row.Workers[j] = w

\* the rows of day d that list worker w
RowsOn(w, d) == {i \in DOMAIN schedule : schedule[i].Day_Num = d /\ InRow(w, schedule[i])}

\* the days of the window starting at t on which the Schedule has w at work
WorkedDays(w, t) == {d \in t..(t + 6) : RowsOn(w, d) # {}}

\* C1: in every assignment that satisfies the built constraints, and in every
\* produced Schedule, each worker has at most one shift on each day.
C1_AtMostOneShiftPerDay ==
    /\ SolutionFound(status) =>
          \A w \in workers(cfg), d \in days(cfg) :
             Cardinality({s \in ToSet(shifts) : <<w, d, s>> \in xtrue}) <= 1
    /\ Produced =>
          \A w \in workers(cfg), d \in days(cfg) : Cardinality(RowsOn(w, d)) <= 1

\* a Schedule in which two shifts of one day are staffed by different workers
C1_Witness ==
    /\ Produced
    /\ \E i, j \in DOMAIN schedule :
          /\ schedule[i].Day_Num = schedule[j].Day_Num
          /\ schedule[i].Shift # schedule[j].Shift
          /\ schedule[i].Worker_Count = 1
          /\ schedule[j].Worker_Count = 1

\* C2: in every produced Schedule each valid (day, shift) has exactly the
\* number of workers required for the shift under the day's type.
C2_ExactCoverage ==
    Produced =>
       \A d \in days(cfg) :
          \A s \in (IF d % 7 = 5 \/ d % 7 = 6 THEN {"manha", "tarde", "noite"}
                    ELSE {"manha", "central", "tarde", "noite"}) :
             /\ Cardinality({i \in DOMAIN schedule :
                               schedule[i].Day_Num = d /\ schedule[i].Shift = s}) = 1
             /\ \A i \in DOMAIN schedule :
                   (schedule[i].Day_Num = d /\ schedule[i].Shift = s) =>
                      /\ s \in DOMAIN (IF d % 7 = 5 \/ d % 7 = 6
                                       THEN cfg.required_staff_weekend
                                       ELSE cfg.required_staff_weekday)
                      /\ schedule[i].Worker_Count =
                            (IF d % 7 = 5 \/ d % 7 = 6
                             THEN cfg.required_staff_weekend[s]
                             ELSE cfg.required_staff_weekday[s])
                      /\ Cardinality({w \in workers(cfg) : InRow(w, schedule[i])})
                            = schedule[i].Worker_Count

\* a Schedule with a staffed weekend shift whose weekday requirement differs
C2_Witness ==
    /\ Produced
    /\ \E i \in DOMAIN schedule :
          /\ schedule[i].Day_Num % 7 = 5
          /\ schedule[i].Worker_Count = 1
          /\ cfg.required_staff_weekday[schedule[i].Shift] = 0
    /\ \E i \in DOMAIN schedule :
          /\ schedule[i].Day_Num % 7 = 0
          /\ schedule[i].Worker_Count = 1

\* C3: in every produced Schedule no worker works on more than 5 days of any
\* 7 consecutive days of the horizon, whatever day the window starts on.
C3_RollingWindow ==
    Produced =>
       \A w \in workers(cfg) : \A t \in 0..(cfg.num_days - 7) :
          Cardinality(WorkedDays(w, t)) <= 5

\* a Schedule over 8 days with a worker at work on exactly 5 days of days 1..7
C3_Witness ==
    /\ Produced
    /\ cfg.num_days >= 8
    /\ \E w \in workers(cfg) : Cardinality(WorkedDays(w, 1)) = 5

\* the windows are built
WindowsBuilt == pc \in {"solving", "solved", "failed", "extracted", "displayed"}

\* the "<= 5" constraints over the works_on_day variables of worker w
WindowSums(w) ==
    {i \in DOMAIN cons : cons[i].kind = "SumLe" /\ \E k \in cons[i].ws : k[1] = w}

\* C4: per worker there is exactly one "<= 5" constraint for each start day in
\* [0, num_days-7], num_days-6 in all, and none when num_days < 7; with
\* num_days < 7 the model holds nothing but the one-shift-per-day and the
\* coverage constraints.
C4_WindowCount ==
    WindowsBuilt =>
       /\ \A w \in workers(cfg) :
             /\ \A t \in 0..(cfg.num_days - 7) :
                   Cardinality({i \in WindowSums(w) :
                                  /\ cons[i].ws = {<<w, t, d>> : d \in t..(t + 6)}
                                  /\ cons[i].rhs = 5
                                  /\ cons[i].enf = {}}) = 1
             /\ Cardinality(WindowSums(w)) =
                   (IF cfg.num_days < 7 THEN 0 ELSE cfg.num_days - 6)
       /\ cfg.num_days < 7 =>
             /\ works = {}
             /\ \A i \in DOMAIN cons :
                   /\ cons[i].kind \in {"AtMostOne", "SumEq"}
                   /\ cons[i].ws = {}
                   /\ cons[i].enf = {}
             /\ Len(cons) = Len(AtMostOneCons(cfg)) + Len(DayShiftPairs(cfg))

\* the windows of an 8-day horizon: two per worker
C4_Witness ==
    /\ WindowsBuilt
    /\ cfg.num_days = 8
    /\ cfg.num_workers = 2
    /\ \A w \in workers(cfg) : Cardinality(WindowSums(w)) = 2

\* C5: in every satisfying assignment each works_on_day variable of (w, d) is
\* true exactly when some assignment variable of (w, d) is true.
C5_Biconditional ==
    SolutionFound(status) =>
       \A k \in works :
          (k \in wtrue) <=>
             (\E s \in ToSet(shifts) : <<k[1], k[3], s>> \in x /\ <<k[1], k[3], s>> \in xtrue)

\* a satisfying assignment with a worked day and an idle day in a window
C5_Witness ==
    /\ SolutionFound(status)
    /\ \E k \in works : k \in wtrue
    /\ \E k \in works : k \notin wtrue /\ \A s \in ToSet(shifts) : <<k[1], k[3], s>> \notin xtrue

\* C6: an assignment variable exists for (w, d, s) exactly when s is valid on
\* d ("central" only when d mod 7 is in 0..4), and no step creates, constrains
\* or looks up a variable of an invalid pair.
C6_SparseVariables ==
    /\ pc # "start" =>
          \A w \in workers(cfg), d \in days(cfg), s \in ToSet(shifts) :
             (<<w, d, s>> \in x) <=> (s # "central" \/ d % 7 \in 0..4)
    /\ \A k \in x \cup queried :
          /\ k[1] \in workers(cfg)
          /\ k[2] \in days(cfg)
          /\ k[3] = "central" => k[2] % 7 \in 0..4
    /\ queried \subseteq x
    /\ \A i \in DOMAIN cons : cons[i].xs \subseteq x
    /\ \A i \in DOMAIN schedule :
          schedule[i].Shift = "central" => schedule[i].Day_Num % 7 \in 0..4

\* a displayed run over a horizon with a weekend, every variable looked up
C6_Witness ==
    /\ pc = "displayed"
    /\ cfg.num_days >= 7
    /\ cfg.num_workers >= 1
    /\ queried = x

\* C7: the four derivations of the day type agree on every day of the
\* horizon: each says Weekend exactly when d mod 7 is 5 or 6, so the rows and
\* the summary split the days as the shift lists and the requirements do.
C7_DayTypeAgrees ==
    /\ \A d \in days(cfg) :
          /\ IsWeekendShiftSet(d) <=> (d % 7 = 5 \/ d % 7 = 6)
          /\ IsWeekendCoverage(d) <=> (d % 7 = 5 \/ d % 7 = 6)
          /\ IsWeekendFlag(d) <=> (d % 7 = 5 \/ d % 7 = 6)
          /\ IsWeekendSummary(d) <=> (d % 7 = 5 \/ d % 7 = 6)
    /\ Produced =>
          \A i \in DOMAIN schedule :
             /\ schedule[i].Is_Weekend <=> schedule[i].Day_Num % 7 \in {5, 6}
             /\ schedule[i].Is_Weekend => schedule[i].Shift \in ToSet(weekend_shifts)
             /\ schedule[i].Is_Weekend =>
                   schedule[i].Worker_Count = cfg.required_staff_weekend[schedule[i].Shift]
    /\ pc = "displayed" =>
          \A w \in workers(cfg) :
             summary[w + 1].Weekend_Shifts =
                Cardinality({i \in DOMAIN schedule :
                               schedule[i].Is_Weekend /\ InRow(w, schedule[i])})

\* a displayed run in which some worker has a weekend shift and a weekday shift
C7_Witness ==
    /\ pc = "displayed"
    /\ \E w \in workers(cfg) :
          summary[w + 1].Weekend_Shifts >= 1 /\ summary[w + 1].Weekday_Shifts >= 1

\* C8: a Schedule and a summary exist only after the solver returned OPTIMAL
\* or FEASIBLE; with any other status the run ends without a Schedule and
\* reports that status, UNKNOWN as UNKNOWN and never as INFEASIBLE.
C8_StatusGate ==
    /\ (Produced \/ schedule # <<>> \/ summary # <<>>) => status \in {"OPTIMAL", "FEASIBLE"}
    /\ status \in {"INFEASIBLE", "UNKNOWN"} =>
          /\ pc \in {"solved", "failed"}
          /\ schedule = <<>>
          /\ summary = <<>>
    /\ pc = "failed" => status \in {"INFEASIBLE", "UNKNOWN"} /\ reported = status
    /\ pc = "solving" => status = "NONE" /\ schedule = <<>> /\ summary = <<>>
    /\ pc = "error" => reported = "EXCEPTION" /\ schedule = <<>> /\ summary = <<>>

\* a run that ended on UNKNOWN
C8_Witness == pc = "failed" /\ status = "UNKNOWN" /\ reported = "UNKNOWN"

\* the three hard constraints, re-checked from the Schedule and the
\* requirements alone
ScheduleValid ==
    /\ \A w \in workers(cfg), d \in days(cfg) : Cardinality(RowsOn(w, d)) <= 1
    /\ \A i \in DOMAIN schedule :
          schedule[i].Worker_Count =
             (IF schedule[i].Day_Num % 7 = 5 \/ schedule[i].Day_Num % 7 = 6
              THEN cfg.required_staff_weekend[schedule[i].Shift]
              ELSE cfg.required_staff_weekday[schedule[i].Shift])
    /\ \A w \in workers(cfg) : \A t \in 0..(cfg.num_days - 7) :
          Cardinality(WorkedDays(w, t)) <= 5

\* C9: an extracted Schedule that breaks a hard constraint is stopped by the
\* re-check (a ValidationFailure) and never reaches the display.
C9_UnsoundScheduleRejected == pc = "displayed" => ScheduleValid

\* negative count, missing requirement entry, or no day or no worker
Malformed(c) ==
    \/ c.num_days <= 0
    \/ c.num_workers <= 0
    \/ DOMAIN c.required_staff_weekday # ToSet(weekday_shifts)
    \/ DOMAIN c.required_staff_weekend # ToSet(weekend_shifts)
    \/ \E s \in DOMAIN c.required_staff_weekday : c.required_staff_weekday[s] < 0
    \/ \E s \in DOMAIN c.required_staff_weekend : c.required_staff_weekend[s] < 0

\* C10: a malformed configuration is rejected before any variable or
\* constraint is created and before the solver is called.
C10_MalformedRejectedFirst ==
    Malformed(cfg) =>
       /\ x = {}
       /\ works = {}
       /\ cons = <<>>
       /\ pc \notin {"solving", "solved", "failed", "extracted", "displayed"}

\* some shift valid on a day of the horizon requires more workers than there are
Exceeds(c) ==
    \E d \in days(c) :
       \/ /\ d % 7 \in {5, 6}
          /\ \E s \in {"manha", "tarde", "noite"} \cap DOMAIN c.required_staff_weekend :
                c.required_staff_weekend[s] > c.num_workers
       \/ /\ d % 7 \in 0..4
          /\ \E s \in {"manha", "central", "tarde", "noite"} \cap DOMAIN c.required_staff_weekday :
                c.required_staff_weekday[s] > c.num_workers

RECURSIVE SumOf(_)
\* the sum of a sequence of numbers
SumOf(seq) == IF seq = <<>> THEN 0 ELSE Head(seq) + SumOf(Tail(seq))

\* C12: in each summary row Total_Shifts is the number of Schedule rows that
\* list the worker, and equals Weekday_Shifts + Weekend_Shifts and the sum of
\* the four per-shift counts; the totals of all workers add up to the
\* Worker_Count of all rows.
C12_SummaryTotals ==
    pc = "displayed" =>
       /\ Len(summary) = Cardinality(workers(cfg))
       /\ \A w \in workers(cfg) :
             /\ summary[w + 1].Worker_ID = w
             /\ summary[w + 1].Total_Shifts =
                   Cardinality({i \in DOMAIN schedule : InRow(w, schedule[i])})
             /\ summary[w + 1].Total_Shifts =
                   summary[w + 1].Weekday_Shifts + summary[w + 1].Weekend_Shifts
             /\ summary[w + 1].Total_Shifts =
                   summary[w + 1].Manha_Shifts + summary[w + 1].Central_Shifts
                     + summary[w + 1].Tarde_Shifts + summary[w + 1].Noite_Shifts
       /\ SumOf([i \in DOMAIN summary |-> summary[i].Total_Shifts])
             = SumOf([i \in DOMAIN schedule |-> schedule[i].Worker_Count])

\* a displayed run with two workers, one of them on a weekday morning and a
\* weekend afternoon, the other with a shift too
C12_Witness ==
    /\ pc = "displayed"
    /\ cfg.num_workers = 2
    /\ \E w \in workers(cfg) :
          /\ summary[w + 1].Manha_Shifts >= 1
          /\ summary[w + 1].Tarde_Shifts >= 1
          /\ summary[w + 1].Weekend_Shifts >= 1
          /\ summary[w + 1].Weekday_Shifts >= 1
    /\ \A w \in workers(cfg) : summary[w + 1].Total_Shifts >= 1
====
